---- MODULE Spec2Model ----
(***************************************************************************)
(* Address matching of grantspassoregon/where (src/src/data.rs):           *)
(* the canonical Address, Address::coincident, Address::label, the         *)
(* conversions From<CityAddress> / TryFrom<CountyAddress>, and the         *)
(* classification MatchRecords::new.                                       *)
(***************************************************************************)
EXTENDS Integers, Sequences, FiniteSets, TLC

\* ---------------------------------------------------------------- bounds
\* longest candidate list handed to MatchRecords::new
MaxCandidates == 2
\* a compared pair differs on at most this many of the nine identity fields
MaxIdDiff == 1
\* longest Match Record Set read by the filter command
MaxRecords == 3

\* ---------------------------------------------------------------- Option<T>
\* Option<T>: None is the empty sequence, Some(v) the one-element sequence
None == <<>>
Some(v) == <<v>>

\* ---------------------------------------------------------------- field values
AddressNumbers == {123, 456}
Suffixes == {None, Some("A")}
PreDirectionals == {None, Some("NORTH")}
StreetNames == {"MAIN", "OAK"}
PostTypes == {"Street", "Avenue"}
SubaddressTypes == {None, Some("Apartment")}
SubaddressIdentifiers == {None, Some("4")}
Floors == {None, Some(2)}
Buildings == {None, Some("B")}
ZipCodes == {97526, 97527}
PostalCommunities == {"GRANTS PASS", "MERLIN"}
StateNames == {"OR", "CA"}
Statuses == {"Current", "Retired"}
SourceIds == {1}
CandidateIds == {2, 3}
\* the object ids of the address of a compared pair: the source's or another
PairIds == {1, 2}

IdentityFields ==
    {"address_number", "address_number_suffix", "street_name_pre_directional",
     "street_name", "street_name_post_type", "subaddress_identifier",
     "zip_code", "postal_community", "state_name"}

SecondaryFields == {"subaddress_type", "floor", "building", "status"}

\* struct Address: every canonical address over the field values above
Address ==
    [address_number : AddressNumbers,
     address_number_suffix : Suffixes,
     street_name_pre_directional : PreDirectionals,
     street_name : StreetNames,
     street_name_post_type : PostTypes,
     subaddress_type : SubaddressTypes,
     subaddress_identifier : SubaddressIdentifiers,
     floor : Floors,
     building : Buildings,
     zip_code : ZipCodes,
     postal_community : PostalCommunities,
     state_name : StateNames,
     status : Statuses,
     object_id : SourceIds \cup CandidateIds]

\* ---------------------------------------------------------------- source records
\* struct CityAddress, reduced to the fields the conversion reads
CityAddress(a) ==
    [kind |-> "city",
     object_id |-> a.object_id,
     address_number |-> a.address_number,
     address_number_suffix |-> a.address_number_suffix,
     street_name_pre_directional |-> a.street_name_pre_directional,
     street_name |-> a.street_name,
     street_name_post_type |-> a.street_name_post_type,
     subaddress_type |-> a.subaddress_type,
     subaddress_identifier |-> a.subaddress_identifier,
     floor |-> a.floor,
     building |-> a.building,
     zip_code |-> a.zip_code,
     status |-> a.status,
     postal_community |-> a.postal_community,
     state_name |-> a.state_name]

\* struct CountyAddress, reduced to the fields the conversion reads: the
\* post-type is optional and the record has no building
CountyAddress(a, post_type) ==
    [kind |-> "county",
     object_id |-> a.object_id,
     address_number |-> a.address_number,
     address_number_suffix |-> a.address_number_suffix,
     street_name_pre_directional |-> a.street_name_pre_directional,
     street_name |-> a.street_name,
     street_name_post_type |-> post_type,
     subaddress_type |-> a.subaddress_type,
     subaddress_identifier |-> a.subaddress_identifier,
     floor |-> a.floor,
     postal_community |-> a.postal_community,
     zip_code |-> a.zip_code,
     state_name |-> a.state_name,
     status |-> a.status]

\* ---------------------------------------------------------------- conversions
Ok(v) == [ok |-> TRUE, val |-> v]
Err == [ok |-> FALSE]

\* impl From<CityAddress> for Address
FromCityAddress(item) ==
    [address_number |-> item.address_number,
     address_number_suffix |-> item.address_number_suffix,
     street_name_pre_directional |-> item.street_name_pre_directional,
     street_name |-> item.street_name,
     street_name_post_type |-> item.street_name_post_type,
     subaddress_type |-> item.subaddress_type,
     subaddress_identifier |-> item.subaddress_identifier,
     floor |-> item.floor,
     building |-> item.building,
     zip_code |-> item.zip_code,
     postal_community |-> item.postal_community,
     state_name |-> item.state_name,
     status |-> item.status,
     object_id |-> item.object_id]

\* TryFromCountyAddress putting a default post-type where the record has none
TryFromCountyAddress_DefaultPostType(item) ==
    Ok([address_number |-> item.address_number,
        address_number_suffix |-> item.address_number_suffix,
        street_name_pre_directional |-> item.street_name_pre_directional,
        street_name |-> item.street_name,
        street_name_post_type |-> IF item.street_name_post_type # None
                                 THEN item.street_name_post_type[1]
                                 ELSE "Street",
        subaddress_type |-> item.subaddress_type,
        subaddress_identifier |-> item.subaddress_identifier,
        floor |-> item.floor,
        building |-> None,
        zip_code |-> item.zip_code,
        postal_community |-> item.postal_community,
        state_name |-> item.state_name,
        status |-> item.status,
        object_id |-> item.object_id])

\* TryFromCountyAddress dropping the subaddress type as it drops the building
TryFromCountyAddress_DropsSubaddressType(item) ==
    IF item.street_name_post_type # None
    THEN Ok([address_number |-> item.address_number,
             address_number_suffix |-> item.address_number_suffix,
             street_name_pre_directional |-> item.street_name_pre_directional,
             street_name |-> item.street_name,
             street_name_post_type |-> item.street_name_post_type[1],
             subaddress_type |-> None,
             subaddress_identifier |-> item.subaddress_identifier,
             floor |-> item.floor,
             building |-> None,
             zip_code |-> item.zip_code,
             postal_community |-> item.postal_community,
             state_name |-> item.state_name,
             status |-> item.status,
             object_id |-> item.object_id])
    ELSE Err

\* impl TryFrom<CountyAddress> for Address
TryFromCountyAddress(item) ==
    IF item.street_name_post_type # None
    THEN Ok([address_number |-> item.address_number,
             address_number_suffix |-> item.address_number_suffix,
             street_name_pre_directional |-> item.street_name_pre_directional,
             street_name |-> item.street_name,
             street_name_post_type |-> item.street_name_post_type[1],
             subaddress_type |-> item.subaddress_type,
             subaddress_identifier |-> item.subaddress_identifier,
             floor |-> item.floor,
             building |-> None,
             zip_code |-> item.zip_code,
             postal_community |-> item.postal_community,
             state_name |-> item.state_name,
             status |-> item.status,
             object_id |-> item.object_id])
    ELSE Err

\* address.clone().try_into() of a candidate B: TryInto<Address>; for a
\* CityAddress it is the infallible From, for a CountyAddress the TryFrom
TryInto(item) ==
    IF item.kind = "city" THEN Ok(FromCityAddress(item))
    ELSE TryFromCountyAddress(item)

\* ---------------------------------------------------------------- Debug formatting
\* {:?} of Option<SubaddressType>
DebugOptionEnum(o) == IF o = None THEN "None" ELSE "Some(" \o o[1] \o ")"
\* {:?} of Option<i64>
DebugOptionInt(o) == IF o = None THEN "None" ELSE "Some(" \o ToString(o[1]) \o ")"
\* {:?} of Option<String>
DebugOptionString(o) == IF o = None THEN "None" ELSE "Some(\"" \o o[1] \o "\")"

\* ---------------------------------------------------------------- Mismatch
MismatchSubaddressType(from, to) ==
    [variant |-> "SubaddressType",
     message |-> DebugOptionEnum(from) \o " not equal to " \o DebugOptionEnum(to)]

MismatchFloor(from, to) ==
    [variant |-> "Floor",
     message |-> DebugOptionInt(from) \o " not equal to " \o DebugOptionInt(to)]

MismatchBuilding(from, to) ==
    [variant |-> "Building",
     message |-> DebugOptionString(from) \o " not equal to " \o DebugOptionString(to)]

MismatchStatus(from, to) ==
    [variant |-> "Status",
     message |-> from \o " not equal to " \o to]

\* Mismatches::new
MismatchesNew(fields) == [fields |-> fields]

\* AddressMatch::new
AddressMatchNew(coincident, fields) ==
    [coincident |-> coincident,
     mismatches |-> IF Len(fields) = 0 THEN None ELSE Some(MismatchesNew(fields))]

\* ---------------------------------------------------------------- Address::coincident
\* IdentityEqual with the comparison of state_name left out
IdentityEqual_NoStateName(self, other) ==
    /\ self.address_number = other.address_number
    /\ self.address_number_suffix = other.address_number_suffix
    /\ self.street_name_pre_directional = other.street_name_pre_directional
    /\ self.street_name = other.street_name
    /\ self.street_name_post_type = other.street_name_post_type
    /\ self.subaddress_identifier = other.subaddress_identifier
    /\ self.zip_code = other.zip_code
    /\ self.postal_community = other.postal_community

\* IdentityEqual with the comparison of zip_code left out
IdentityEqual_NoZipCode(self, other) ==
    /\ self.address_number = other.address_number
    /\ self.address_number_suffix = other.address_number_suffix
    /\ self.street_name_pre_directional = other.street_name_pre_directional
    /\ self.street_name = other.street_name
    /\ self.street_name_post_type = other.street_name_post_type
    /\ self.subaddress_identifier = other.subaddress_identifier
    /\ self.postal_community = other.postal_community
    /\ self.state_name = other.state_name

\* the conjunction over the nine identity fields
IdentityEqual(self, other) ==
    /\ self.address_number = other.address_number
    /\ self.address_number_suffix = other.address_number_suffix
    /\ self.street_name_pre_directional = other.street_name_pre_directional
    /\ self.street_name = other.street_name
    /\ self.street_name_post_type = other.street_name_post_type
    /\ self.subaddress_identifier = other.subaddress_identifier
    /\ self.zip_code = other.zip_code
    /\ self.postal_community = other.postal_community
    /\ self.state_name = other.state_name

\* SecondaryMismatches with the status test inverted (== for !=)
SecondaryMismatches_StatusInverted(self, other) ==
    (IF self.subaddress_type # other.subaddress_type
     THEN <<MismatchSubaddressType(self.subaddress_type, other.subaddress_type)>>
     ELSE <<>>)
    \o (IF self.floor # other.floor
        THEN <<MismatchFloor(self.floor, other.floor)>>
        ELSE <<>>)
    \o (IF self.building # other.building
        THEN <<MismatchBuilding(self.building, other.building)>>
        ELSE <<>>)
    \o (IF self.status = other.status
        THEN <<MismatchStatus(self.status, other.status)>>
        ELSE <<>>)

\* SecondaryMismatches reporting a floor only when self has one
SecondaryMismatches_FloorOneSided(self, other) ==
    (IF self.subaddress_type # other.subaddress_type
     THEN <<MismatchSubaddressType(self.subaddress_type, other.subaddress_type)>>
     ELSE <<>>)
    \o (IF self.floor # None /\ self.floor # other.floor
        THEN <<MismatchFloor(self.floor, other.floor)>>
        ELSE <<>>)
    \o (IF self.building # other.building
        THEN <<MismatchBuilding(self.building, other.building)>>
        ELSE <<>>)
    \o (IF self.status # other.status
        THEN <<MismatchStatus(self.status, other.status)>>
        ELSE <<>>)

\* SecondaryMismatches as an else-if chain: it stops at the first difference
SecondaryMismatches_ShortCircuit(self, other) ==
    IF self.subaddress_type # other.subaddress_type
    THEN <<MismatchSubaddressType(self.subaddress_type, other.subaddress_type)>>
    ELSE IF self.floor # other.floor
    THEN <<MismatchFloor(self.floor, other.floor)>>
    ELSE IF self.building # other.building
    THEN <<MismatchBuilding(self.building, other.building)>>
    ELSE IF self.status # other.status
    THEN <<MismatchStatus(self.status, other.status)>>
    ELSE <<>>

\* SecondaryMismatches taking an absent building of other as unknown
SecondaryMismatches_BuildingIgnoresNone(self, other) ==
    (IF self.subaddress_type # other.subaddress_type
     THEN <<MismatchSubaddressType(self.subaddress_type, other.subaddress_type)>>
     ELSE <<>>)
    \o (IF self.floor # other.floor
        THEN <<MismatchFloor(self.floor, other.floor)>>
        ELSE <<>>)
    \o (IF other.building # None /\ self.building # other.building
        THEN <<MismatchBuilding(self.building, other.building)>>
        ELSE <<>>)
    \o (IF self.status # other.status
        THEN <<MismatchStatus(self.status, other.status)>>
        ELSE <<>>)

\* the pushes made inside the identity branch, in source order
SecondaryMismatches(self, other) ==
    (IF self.subaddress_type # other.subaddress_type
     THEN <<MismatchSubaddressType(self.subaddress_type, other.subaddress_type)>>
     ELSE <<>>)
    \o (IF self.floor # other.floor
        THEN <<MismatchFloor(self.floor, other.floor)>>
        ELSE <<>>)
    \o (IF self.building # other.building
        THEN <<MismatchBuilding(self.building, other.building)>>
        ELSE <<>>)
    \o (IF self.status # other.status
        THEN <<MismatchStatus(self.status, other.status)>>
        ELSE <<>>)

\* coincident computing the mismatches outside the identity branch
coincident_AnnotateAlways(self, other) ==
    AddressMatchNew(IdentityEqual(self, other), SecondaryMismatches(self, other))

coincident(self, other) ==
    IF IdentityEqual(self, other)
    THEN AddressMatchNew(TRUE, SecondaryMismatches(self, other))
    ELSE AddressMatchNew(FALSE, <<>>)

\* ---------------------------------------------------------------- Address::label
\* label writing the identifier before the subaddress type and without "#"
label_IdentifierFirst(self) ==
    LET complete_address_number ==
            IF self.address_number_suffix # None
            THEN ToString(self.address_number) \o " " \o self.address_number_suffix[1]
            ELSE ToString(self.address_number)
        complete_street_name ==
            IF self.street_name_pre_directional # None
            THEN self.street_name_pre_directional[1] \o " " \o self.street_name
                     \o " " \o self.street_name_post_type
            ELSE self.street_name \o " " \o self.street_name_post_type
        complete_subaddress ==
            IF self.subaddress_identifier # None
            THEN (IF self.subaddress_type # None
                  THEN Some(self.subaddress_identifier[1] \o " " \o self.subaddress_type[1])
                  ELSE Some(self.subaddress_identifier[1]))
            ELSE (IF self.subaddress_type # None
                  THEN Some(self.subaddress_type[1])
                  ELSE None)
    IN  IF complete_subaddress # None
        THEN complete_address_number \o " " \o complete_street_name
                 \o " " \o complete_subaddress[1]
        ELSE complete_address_number \o " " \o complete_street_name

label(self) ==
    LET complete_address_number ==
            IF self.address_number_suffix # None
            THEN ToString(self.address_number) \o " " \o self.address_number_suffix[1]
            ELSE ToString(self.address_number)
        complete_street_name ==
            IF self.street_name_pre_directional # None
            THEN self.street_name_pre_directional[1] \o " " \o self.street_name
                     \o " " \o self.street_name_post_type
            ELSE self.street_name \o " " \o self.street_name_post_type
        complete_subaddress ==
            IF self.subaddress_identifier # None
            THEN (IF self.subaddress_type # None
                  THEN Some(self.subaddress_type[1] \o " " \o self.subaddress_identifier[1])
                  ELSE Some("#" \o self.subaddress_identifier[1]))
            ELSE (IF self.subaddress_type # None
                  THEN Some(self.subaddress_type[1])
                  ELSE None)
    IN  IF complete_subaddress # None
        THEN complete_address_number \o " " \o complete_street_name
                 \o " " \o complete_subaddress[1]
        ELSE complete_address_number \o " " \o complete_street_name

\* ---------------------------------------------------------------- MatchRecord
\* MatchingRecord leaving other_id unset
MatchingRecord_NoOtherId(address_label, self_id, other_id) ==
    [match_status |-> "Matching",
     address_label |-> address_label,
     self_id |-> self_id,
     other_id |-> None,
     subaddress_type |-> None,
     floor |-> None,
     building |-> None,
     status |-> None]

\* the four optional columns as declared before the match on mismatches
MatchingRecord(address_label, self_id, other_id) ==
    [match_status |-> "Matching",
     address_label |-> address_label,
     self_id |-> self_id,
     other_id |-> other_id,
     subaddress_type |-> None,
     floor |-> None,
     building |-> None,
     status |-> None]

\* for mismatch in mismatches.fields { match mismatch { ... } }: the column of
\* a variant holds the message of the last mismatch of that variant
RECURSIVE MismatchColumn(_, _, _)
MismatchColumn(fields, variant, column) ==
    IF fields = <<>> THEN column
    ELSE MismatchColumn(Tail(fields), variant,
                        IF Head(fields).variant = variant
                        THEN Some(Head(fields).message)
                        ELSE column)

\* DivergentRecord with the status message stored in the building column
DivergentRecord_StatusInBuilding(address_label, self_id, other_id, mismatches) ==
    [match_status |-> "Divergent",
     address_label |-> address_label,
     self_id |-> self_id,
     other_id |-> other_id,
     subaddress_type |-> MismatchColumn(mismatches.fields, "SubaddressType", None),
     floor |-> MismatchColumn(mismatches.fields, "Floor", None),
     building |-> MismatchColumn(mismatches.fields, "Status",
                      MismatchColumn(mismatches.fields, "Building", None)),
     status |-> None]

DivergentRecord(address_label, self_id, other_id, mismatches) ==
    [match_status |-> "Divergent",
     address_label |-> address_label,
     self_id |-> self_id,
     other_id |-> other_id,
     subaddress_type |-> MismatchColumn(mismatches.fields, "SubaddressType", None),
     floor |-> MismatchColumn(mismatches.fields, "Floor", None),
     building |-> MismatchColumn(mismatches.fields, "Building", None),
     status |-> MismatchColumn(mismatches.fields, "Status", None)]

MissingRecord(address_label, self_id) ==
    [match_status |-> "Missing",
     address_label |-> address_label,
     self_id |-> self_id,
     other_id |-> None,
     subaddress_type |-> None,
     floor |-> None,
     building |-> None,
     status |-> None]

\* ---------------------------------------------------------------- MatchRecords::new
\* the record a coincident candidate pushes
CoincidentRecord(address_label, self_id, other, address_match) ==
    IF address_match.mismatches = None
    THEN MatchingRecord(address_label, self_id, Some(other.object_id))
    ELSE DivergentRecord(address_label, self_id, Some(other.object_id),
                         address_match.mismatches[1])

\* CandidateRecords without the test of address_match.coincident
CandidateRecords_NoCoincidentTest(self_address, address_label, self_id, address) ==
    LET converted == TryInto(address)
    IN  IF converted.ok
        THEN <<CoincidentRecord(address_label, self_id, converted.val,
                                coincident(self_address, converted.val))>>
        ELSE <<>>

\* one iteration of the loop over other_addresses: what it pushes
CandidateRecords(self_address, address_label, self_id, address) ==
    LET converted == TryInto(address)
    IN  IF converted.ok
        THEN (IF coincident(self_address, converted.val).coincident
              THEN <<CoincidentRecord(address_label, self_id, converted.val,
                                      coincident(self_address, converted.val))>>
              ELSE <<>>)
        ELSE <<>>

\* ScanCandidates leaving the loop after the first record pushed
RECURSIVE ScanCandidates_FirstOnly(_, _, _, _)
ScanCandidates_FirstOnly(self_address, address_label, self_id, other_addrs) ==
    IF other_addrs = <<>> THEN <<>>
    ELSE IF CandidateRecords(self_address, address_label, self_id, Head(other_addrs)) # <<>>
    THEN CandidateRecords(self_address, address_label, self_id, Head(other_addrs))
    ELSE ScanCandidates_FirstOnly(self_address, address_label, self_id, Tail(other_addrs))

\* ScanCandidates inserting each record at the front of match_record
RECURSIVE ScanCandidates_Reversed(_, _, _, _)
ScanCandidates_Reversed(self_address, address_label, self_id, other_addrs) ==
    IF other_addrs = <<>> THEN <<>>
    ELSE ScanCandidates_Reversed(self_address, address_label, self_id, Tail(other_addrs))
         \o CandidateRecords(self_address, address_label, self_id, Head(other_addrs))

\* the loop over other_addresses: match_record after the last iteration
RECURSIVE ScanCandidates(_, _, _, _)
ScanCandidates(self_address, address_label, self_id, other_addrs) ==
    IF other_addrs = <<>> THEN <<>>
    ELSE CandidateRecords(self_address, address_label, self_id, Head(other_addrs))
         \o ScanCandidates(self_address, address_label, self_id, Tail(other_addrs))

\* MissingIfEmpty without the push
MissingIfEmpty_NoPush(match_record, address_label, self_id) == match_record

\* MissingIfEmpty pushing whether or not match_record is empty
MissingIfEmpty_AlwaysPush(match_record, address_label, self_id) ==
    match_record \o <<MissingRecord(address_label, self_id)>>

\* if match_record.is_empty() { push Missing }
MissingIfEmpty(match_record, address_label, self_id) ==
    IF match_record = <<>>
    THEN <<MissingRecord(address_label, self_id)>>
    ELSE match_record

\* MatchRecords::new(self_address, other_addresses).records
MatchRecordsNew(self_item, other_addrs) ==
    LET converted_self == FromCityAddress(self_item)
        self_id == converted_self.object_id
        address_label == label(converted_self)
    IN  MissingIfEmpty(
            ScanCandidates(converted_self, address_label, self_id, other_addrs),
            address_label, self_id)

\* ---------------------------------------------------------------- inputs
\* the other value of a two-valued field
OtherOf(S, v) == CHOOSE x \in S : x # v

\* source addresses: every presence pattern of the six optional fields
Sources ==
    {a \in Address :
        /\ a.object_id \in SourceIds
        /\ a.address_number = 123
        /\ a.street_name = "MAIN"
        /\ a.street_name_post_type = "Street"
        /\ a.zip_code = 97526
        /\ a.postal_community = "GRANTS PASS"
        /\ a.state_name = "OR"
        /\ a.status = "Current"}

\* source addresses classified against the longer candidate lists
ListSources ==
    {a \in Sources :
        /\ a.address_number_suffix = Some("A")
        /\ a.street_name_pre_directional = None
        /\ a.subaddress_identifier = Some("4")
        /\ a.floor = None}

\* a single candidate to compare with a: any address (a itself included) that
\* differs from a on at most MaxIdDiff identity fields, on any of the
\* secondary fields and on the object id
PairOthers(a) ==
    {b \in Address :
        /\ b.object_id \in PairIds
        /\ Cardinality({f \in IdentityFields : a[f] # b[f]}) <= MaxIdDiff}

\* city candidates near a: equal, or differing on one field
CityVariants(a) ==
    {a,
     [a EXCEPT !.status = OtherOf(Statuses, a.status)],
     [a EXCEPT !.floor = OtherOf(Floors, a.floor)],
     [a EXCEPT !.building = OtherOf(Buildings, a.building)],
     [a EXCEPT !.subaddress_type = OtherOf(SubaddressTypes, a.subaddress_type)],
     [a EXCEPT !.address_number = OtherOf(AddressNumbers, a.address_number)]}

\* county candidates near a: equal, or differing on status
CountyVariants(a) ==
    {a, [a EXCEPT !.status = OtherOf(Statuses, a.status)]}

CandidatePool(a) ==
    {CityAddress([v EXCEPT !.object_id = id]) :
        v \in CityVariants(a), id \in CandidateIds}
    \cup
    {CountyAddress([v EXCEPT !.object_id = id], Some(v.street_name_post_type)) :
        v \in CountyVariants(a), id \in CandidateIds}
    \cup
    {CountyAddress([a EXCEPT !.object_id = id], None) : id \in CandidateIds}

\* the sequences over S of length at most n
SeqUpTo(S, n) == UNION {[1..k -> S] : k \in 0..n}

\* ---------------------------------------------------------------- state
VARIABLES
    self_address,      \* the argument self_address of MatchRecords::new
    other_addresses,   \* the argument other_addresses, in list order; the call
                       \* takes both by value, and the two variables keep the
                       \* values that were passed
    other,             \* the converted candidate of the last comparison
    address_match,     \* the AddressMatch of the last comparison
    records,           \* MatchRecords.records: of the last classification, or
                       \* as read by the filter command
    conversion,        \* the last TryFrom<CountyAddress>: its item and result
    filter,            \* cli.filter of the filter command
    filtered,          \* the record set the filter command writes out
    output,            \* the rows of the file written by to_csv
    pc                 \* "loaded", "compared", "converted", "classified";
                       \* "start", "read", "written", "failed", "warned" in the
                       \* filter command

vars == <<self_address, other_addresses, other, address_match, records,
          conversion, filter, filtered, output, pc>>

Init ==
    /\ \/ /\ self_address \in {CityAddress(a) : a \in Sources}
          /\ other_addresses \in
                 {<<CityAddress(b)>> : b \in PairOthers(FromCityAddress(self_address))}
       \/ /\ self_address \in {CityAddress(a) : a \in ListSources}
          /\ other_addresses \in
                 SeqUpTo(CandidatePool(FromCityAddress(self_address)), MaxCandidates)
    /\ other = None
    /\ address_match = None
    /\ records = <<>>
    /\ conversion = None
    /\ filter = None
    /\ filtered = None
    /\ output = None
    /\ pc = "loaded"

\* self_address.clone().coincident(&other) on the i-th candidate
Coincident(i) ==
    /\ pc = "loaded"
    /\ i \in DOMAIN other_addresses
    /\ TryInto(other_addresses[i]).ok
    /\ other' = Some(TryInto(other_addresses[i]).val)
    /\ address_match' =
           Some(coincident(FromCityAddress(self_address), TryInto(other_addresses[i]).val))
    /\ pc' = "compared"
    /\ UNCHANGED <<self_address, other_addresses, records, conversion,
                   filter, filtered, output>>

\* Address::try_from(item) on the i-th candidate, a CountyAddress
TryFrom(i) ==
    /\ pc = "loaded"
    /\ i \in DOMAIN other_addresses
    /\ other_addresses[i].kind = "county"
    /\ conversion' = Some([item |-> other_addresses[i],
                           result |-> TryFromCountyAddress(other_addresses[i])])
    /\ pc' = "converted"
    /\ UNCHANGED <<self_address, other_addresses, other, address_match, records,
                   filter, filtered, output>>

\* MatchRecords::new(self_address, other_addresses): both arguments are
\* moved into the call, which is made once; it returns the records
Classify ==
    /\ pc = "loaded"
    /\ records' = MatchRecordsNew(self_address, other_addresses)
    /\ pc' = "classified"
    /\ UNCHANGED <<self_address, other_addresses, other, address_match,
                   conversion, filter, filtered, output>>

Next ==
    \/ \E i \in 1..MaxCandidates : Coincident(i)
    \/ \E i \in 1..MaxCandidates : TryFrom(i)
    \/ Classify

Spec == Init /\ [][Next]_vars

\* ---------------------------------------------------------------- filter command
\* enum MatchStatus
MatchStatuses == {"Matching", "Divergent", "Missing"}

\* the rows a Match Record Set read from a file can hold
CsvRecords ==
    {MissingRecord("123 MAIN Street", id) : id \in {1, 2}}
    \cup {MatchingRecord("123 MAIN Street", id, Some(3)) : id \in {1, 2}}
    \cup {[MatchingRecord("123 MAIN Street", id, Some(3)) EXCEPT
              !.match_status = "Divergent",
              !.status = Some("Current not equal to Retired")] : id \in {1, 2}}

\* FilterRecords returning the kept records last to first
FilterRecords_Reversed(recs, status) ==
    LET Keep(r) == r.match_status = status
        kept == SelectSeq(recs, Keep)
    IN  [k \in DOMAIN kept |-> kept[Len(kept) + 1 - k]]

\* MatchRecords::filter by a status: the records of that status, in the
\* order of the set
FilterRecords(recs, status) ==
    LET Keep(r) == r.match_status = status
    IN  SelectSeq(recs, Keep)

\* an optional column of a row, empty when absent
CsvOptionInt(o) == IF o = None THEN "" ELSE ToString(o[1])
CsvOptionString(o) == IF o = None THEN "" ELSE o[1]

\* the row of a Match Record: match_status, address_label, self_id, other_id,
\* subaddress_type, floor, building, status
CsvRow(r) ==
    <<r.match_status, r.address_label, ToString(r.self_id),
      CsvOptionInt(r.other_id), CsvOptionString(r.subaddress_type),
      CsvOptionString(r.floor), CsvOptionString(r.building),
      CsvOptionString(r.status)>>

\* MatchRecords::to_csv: one row per record, in the order of the set
ToCsv(recs) == [k \in DOMAIN recs |-> CsvRow(recs[k])]

\* entry of the "filter" arm of main with cli.business unset: cli.filter is
\* parsed, no set has been read
InitFilter ==
    /\ records = <<>>
    /\ filter \in {None} \cup {Some(st) : st \in MatchStatuses}
    /\ filtered = None
    /\ output = None
    /\ self_address = None
    /\ other_addresses = <<>>
    /\ other = None
    /\ address_match = None
    /\ conversion = None
    /\ pc = "start"

\* cli.filter is set:
\*   let match_records = MatchRecords::from_csv(cli.source.clone())?;
\* the set held by the source file is read, or the read returns an error and
\* the arm ends
FromCsv ==
    /\ pc = "start"
    /\ filter # None
    /\ \/ \E recs \in SeqUpTo(CsvRecords, MaxRecords) :
              /\ records' = recs
              /\ pc' = "read"
       \/ /\ records' = records
          /\ pc' = "failed"
    /\ UNCHANGED <<self_address, other_addresses, other, address_match,
                   conversion, filter, filtered, output>>

\* after the read:
\*   let mut filtered = match_records.clone().filter(&filter);
\*   filtered.to_csv(cli.output)?;
\* the filter acts on a clone of the set; to_csv writes the rows of the
\* filtered set or returns an error, and the arm ends
Filter ==
    /\ pc = "read"
    /\ filter # None
    /\ filtered' = Some(FilterRecords(records, filter[1]))
    /\ \E written \in BOOLEAN :
           /\ output' = IF written THEN Some(ToCsv(filtered'[1])) ELSE None
           /\ pc' = IF written THEN "written" ELSE "failed"
    /\ UNCHANGED <<self_address, other_addresses, other, address_match, records,
                   conversion, filter>>

\* cli.filter is not set: warn!("Filter parameter (-f or --filter) must be
\* set."), nothing is read, filtered or written
FilterNotSet ==
    /\ pc = "start"
    /\ filter = None
    /\ pc' = "warned"
    /\ UNCHANGED <<self_address, other_addresses, other, address_match, records,
                   conversion, filter, filtered, output>>

NextFilter ==
    \/ FromCsv
    \/ Filter
    \/ FilterNotSet

SpecFilter == InitFilter /\ [][NextFilter]_vars

\* ---------------------------------------------------------------- properties
\* the two addresses and the result of the last comparison
A == FromCityAddress(self_address)
B == other[1]
Compared == pc = "compared"
Classified == pc = "classified"
MatchOfAB == address_match[1]

\* the fields among F on which a and b differ
Differing(F, a, b) == {f \in F : a[f] # b[f]}

\* the mismatch list of an AddressMatch, empty when it holds None
MismatchList(m) == IF m.mismatches = None THEN <<>> ELSE m.mismatches[1].fields

\* the Mismatch variant that reports a secondary field
VariantOf(f) ==
    CASE f = "subaddress_type" -> "SubaddressType"
      [] f = "floor" -> "Floor"
      [] f = "building" -> "Building"
      [] f = "status" -> "Status"

\* b with one of its secondary fields or its object id replaced by any
\* value, and b with all of them replaced by the other value
SecondaryRewrites(b) ==
    {[b EXCEPT !.subaddress_type = t] : t \in SubaddressTypes}
    \cup {[b EXCEPT !.floor = fl] : fl \in Floors}
    \cup {[b EXCEPT !.building = bd] : bd \in Buildings}
    \cup {[b EXCEPT !.status = st] : st \in Statuses}
    \cup {[b EXCEPT !.object_id = id] : id \in SourceIds \cup CandidateIds}
    \cup {[b EXCEPT !.subaddress_type = OtherOf(SubaddressTypes, b.subaddress_type),
                    !.floor = OtherOf(Floors, b.floor),
                    !.building = OtherOf(Buildings, b.building),
                    !.status = OtherOf(Statuses, b.status),
                    !.object_id = OtherOf(PairIds, b.object_id)]}

\* C1: coincident(A, B) reports true exactly when the nine identity fields are
\* equal, and replacing the secondary fields and the object id of B by any
\* other values leaves the boolean result as it is.
C1_IdentityIffCoincident ==
    Compared =>
        /\ MatchOfAB.coincident <=> (Differing(IdentityFields, A, B) = {})
        /\ \A b2 \in SecondaryRewrites(B) :
               coincident(A, b2).coincident = MatchOfAB.coincident

C1_Witness ==
    /\ Compared
    /\ MatchOfAB.coincident
    /\ Differing(SecondaryFields, A, B) = SecondaryFields
    /\ A.object_id # B.object_id

\* C2: when at least one identity field differs, coincident(A, B) is false and
\* carries no mismatches, also when secondary fields differ.
C2_NonCoincidentNotAnnotated ==
    (Compared /\ Differing(IdentityFields, A, B) # {}) =>
        /\ MatchOfAB.coincident = FALSE
        /\ MatchOfAB.mismatches = None

C2_Witness ==
    /\ Compared
    /\ Cardinality(Differing(IdentityFields, A, B)) = 1
    /\ Differing(SecondaryFields, A, B) = SecondaryFields
    /\ MatchOfAB.mismatches = None

\* C3: coincident(A, A) is true with zero mismatches, whatever optional fields
\* of A are absent.
C3_Reflexive ==
    (Compared /\ B = A) =>
        MatchOfAB = [coincident |-> TRUE, mismatches |-> None]

C3_Witness ==
    /\ Compared
    /\ B = A
    /\ A.address_number_suffix = None
    /\ A.street_name_pre_directional = None
    /\ A.subaddress_type = None
    /\ A.subaddress_identifier = None
    /\ A.floor = None
    /\ A.building = None
    /\ MatchOfAB.coincident

\* the variants of a mismatch list, in list order
VariantsOf(fields) == [i \in DOMAIN fields |-> fields[i].variant]

\* C4: coincident(A, B) and coincident(B, A) give the same boolean result and
\* report mismatches on the same set of secondary fields; a mismatch is
\* identified by its variant, its message names the two values in the order
\* of the call.
C4_Symmetric ==
    Compared =>
        LET MatchOfBA == coincident(B, A)
            VariantsAB == {MismatchList(MatchOfAB)[i].variant :
                              i \in DOMAIN MismatchList(MatchOfAB)}
            VariantsBA == {MismatchList(MatchOfBA)[i].variant :
                              i \in DOMAIN MismatchList(MatchOfBA)}
        IN  /\ MatchOfBA.coincident = MatchOfAB.coincident
            /\ VariantsBA = {VariantOf(f) : f \in
                    IF MatchOfAB.coincident
                    THEN Differing(SecondaryFields, A, B) ELSE {}}
            /\ VariantsAB = VariantsBA

C4_Witness ==
    /\ Compared
    /\ MatchOfAB.coincident
    /\ A.floor = None
    /\ B.floor # None
    /\ A.building # None
    /\ B.building = None
    /\ Len(MismatchList(coincident(B, A))) >= 2

\* C5: for coincident A and B the mismatch list holds exactly one Mismatch for
\* each secondary field on which they differ and none for a field on which
\* they agree, so its length is the number of differing secondary fields.
C5_OneMismatchPerDifferingField ==
    (Compared /\ MatchOfAB.coincident) =>
        /\ \A f \in SecondaryFields :
               Cardinality({i \in DOMAIN MismatchList(MatchOfAB) :
                               MismatchList(MatchOfAB)[i].variant = VariantOf(f)})
               = IF A[f] # B[f] THEN 1 ELSE 0
        /\ Len(MismatchList(MatchOfAB))
               = Cardinality(Differing(SecondaryFields, A, B))
        /\ Len(MismatchList(MatchOfAB)) \in 0..4

C5_Witness ==
    /\ Compared
    /\ MatchOfAB.coincident
    /\ Len(MismatchList(MatchOfAB)) = 4

\* ---------------------------------------------------------------- classification
\* the positions of the candidates that convert and agree with the source on
\* the nine identity fields
CoincidentPositions ==
    {i \in DOMAIN other_addresses :
        /\ TryInto(other_addresses[i]).ok
        /\ Differing(IdentityFields, A, TryInto(other_addresses[i]).val) = {}}

\* the secondary fields on which the converted i-th candidate differs from
\* the source
SecondaryDiff(i) == Differing(SecondaryFields, A, TryInto(other_addresses[i]).val)

\* the positions of the records of a status
RecordsOf(status) == {k \in DOMAIN records : records[k].match_status = status}

\* C6: against an empty candidate list the result is exactly one record, with
\* status Missing, the label and id of the source, no other_id and the four
\* secondary columns empty.
C6_EmptyCandidatesMissing ==
    (Classified /\ other_addresses = <<>>) =>
        records = <<[match_status |-> "Missing",
                     address_label |-> label(A),
                     self_id |-> self_address.object_id,
                     other_id |-> None,
                     subaddress_type |-> None,
                     floor |-> None,
                     building |-> None,
                     status |-> None]>>

C6_Witness ==
    /\ Classified
    /\ other_addresses = <<>>
    /\ Len(records) = 1
    /\ A.subaddress_identifier # None

\* C7: when exactly one candidate of the list is coincident with the source
\* and that candidate equals it on the four secondary fields, the result is
\* exactly one record, of status Matching, with other_id the candidate's id.
C7_SingleEqualCandidateMatching ==
    \A i \in DOMAIN other_addresses :
        (Classified /\ CoincidentPositions = {i} /\ SecondaryDiff(i) = {}) =>
            /\ Len(records) = 1
            /\ records[1].match_status = "Matching"
            /\ records[1].other_id = Some(other_addresses[i].object_id)

C7_Witness ==
    /\ Classified
    /\ Len(other_addresses) = 2
    /\ CoincidentPositions = {2}
    /\ SecondaryDiff(2) = {}
    /\ records[1].match_status = "Matching"

\* C8: against N >= 1 candidates that are each coincident with the source and
\* each differ from it on status only, the result is exactly N Divergent
\* records, each with the status column set and the subaddress_type, floor
\* and building columns empty.
C8_StatusOnlyDivergent ==
    (/\ Classified
     /\ Len(other_addresses) >= 1
     /\ CoincidentPositions = DOMAIN other_addresses
     /\ \A i \in DOMAIN other_addresses : SecondaryDiff(i) = {"status"}) =>
        /\ Len(records) = Len(other_addresses)
        /\ \A k \in DOMAIN records :
               /\ records[k].match_status = "Divergent"
               /\ records[k].status # None
               /\ records[k].subaddress_type = None
               /\ records[k].floor = None
               /\ records[k].building = None

C8_Witness ==
    /\ Classified
    /\ Len(other_addresses) >= 2
    /\ CoincidentPositions = DOMAIN other_addresses
    /\ \A i \in DOMAIN other_addresses : SecondaryDiff(i) = {"status"}
    /\ Len(records) = Len(other_addresses)

\* C9: the result is never empty, and a Missing record is the only record of
\* a result that holds one.
C9_NeverEmptyMissingAlone ==
    Classified =>
        /\ Len(records) >= 1
        /\ (RecordsOf("Missing") # {} => Len(records) = 1)

C9_Witness ==
    /\ Classified
    /\ Len(other_addresses) >= 2
    /\ RecordsOf("Missing") = {1}
    /\ Len(records) = 1

\* C10 as stated: the result is one Matching record and nothing else, or one
\* or more Divergent records and nothing else, or exactly one Missing record.
C10_ThreeOutcomes ==
    Classified =>
        \/ Len(records) = 1 /\ RecordsOf("Matching") = {1}
        \/ Len(records) >= 1 /\ RecordsOf("Divergent") = DOMAIN records
        \/ Len(records) = 1 /\ RecordsOf("Missing") = {1}

\* C10 amended: the result is exactly one Missing record when no candidate is
\* coincident, and otherwise one record per coincident candidate, each of
\* them Matching or Divergent; Matching and Divergent records can stand side
\* by side, and so can several Matching records.
C10_MissingOrPerCandidate ==
    Classified =>
        \/ /\ CoincidentPositions = {}
           /\ Len(records) = 1
           /\ RecordsOf("Missing") = {1}
        \/ /\ CoincidentPositions # {}
           /\ Len(records) = Cardinality(CoincidentPositions)
           /\ RecordsOf("Matching") \cup RecordsOf("Divergent") = DOMAIN records
           /\ Cardinality(RecordsOf("Matching"))
                  = Cardinality({i \in CoincidentPositions : SecondaryDiff(i) = {}})

C10_Witness ==
    /\ Classified
    /\ RecordsOf("Matching") # {}
    /\ RecordsOf("Divergent") # {}

\* ---------------------------------------------------------------- conversion
\* a candidate record converts: a city record always, a county record when
\* it holds a post-type
Convertible(c) == c.kind = "city" \/ c.street_name_post_type # None

\* the candidate list without the records that do not convert
ConvertibleOnly(cands) == SelectSeq(cands, Convertible)

\* C11: candidates that fail conversion are skipped silently: the records are
\* those of the same list without the non-convertible candidates, every
\* other_id is the id of a convertible candidate, and a list whose candidates
\* all fail gives exactly one Missing record.
C11_FailedConversionSkipped ==
    Classified =>
        /\ records = MatchRecordsNew(self_address, ConvertibleOnly(other_addresses))
        /\ \A k \in DOMAIN records :
               records[k].other_id # None =>
                   \E i \in DOMAIN other_addresses :
                       /\ Convertible(other_addresses[i])
                       /\ records[k].other_id = Some(other_addresses[i].object_id)
        /\ ConvertibleOnly(other_addresses) = <<>> =>
               (Len(records) = 1 /\ records[1].match_status = "Missing"
                    /\ records[1].other_id = None)

C11_Witness ==
    /\ Classified
    /\ Len(other_addresses) = 2
    /\ ~Convertible(other_addresses[1])
    /\ Convertible(other_addresses[2])
    /\ other_addresses[1].object_id # other_addresses[2].object_id
    /\ Len(records) = 1
    /\ records[1].other_id = Some(other_addresses[2].object_id)

\* the county record and the result of the last TryFrom<CountyAddress>
ConvertedItem == conversion[1].item
ConversionResult == conversion[1].result

\* C12: the conversion of a county record fails exactly when its post-type is
\* absent, and on success the thirteen fields named are those of the record.
C12_CountyConversion ==
    pc = "converted" =>
        /\ ConversionResult.ok = (ConvertedItem.street_name_post_type # None)
        /\ ConversionResult.ok =>
               /\ \A f \in {"address_number", "address_number_suffix",
                            "street_name_pre_directional", "street_name",
                            "subaddress_type", "subaddress_identifier", "floor",
                            "zip_code", "postal_community", "state_name",
                            "status", "object_id"} :
                      ConversionResult.val[f] = ConvertedItem[f]
               /\ Some(ConversionResult.val.street_name_post_type)
                      = ConvertedItem.street_name_post_type

C12_Witness ==
    /\ pc = "converted"
    /\ ConversionResult.ok
    /\ ConvertedItem.subaddress_type # None
    /\ ConvertedItem.subaddress_identifier # None
    /\ ConversionResult.val.status = "Retired"

\* ---------------------------------------------------------------- label
\* the words of a list joined by single spaces
RECURSIVE JoinWords(_)
JoinWords(words) ==
    IF Len(words) = 1 THEN words[1]
    ELSE words[1] \o " " \o JoinWords(Tail(words))

\* the words of the label as the three parts give them
NumberPart(a) == <<ToString(a.address_number)>> \o a.address_number_suffix
StreetPart(a) ==
    a.street_name_pre_directional \o <<a.street_name, a.street_name_post_type>>
SubaddressPart(a) ==
    CASE a.subaddress_type # None /\ a.subaddress_identifier # None ->
             <<a.subaddress_type[1], a.subaddress_identifier[1]>>
      [] a.subaddress_type = None /\ a.subaddress_identifier # None ->
             <<"#" \o a.subaddress_identifier[1]>>
      [] a.subaddress_type # None /\ a.subaddress_identifier = None ->
             <<a.subaddress_type[1]>>
      [] OTHER -> <<>>

\* C13: the label is the number part, the street part and, when there is one,
\* the subaddress part, separated by single spaces; 123, "A", no
\* pre-directional, MAIN, Street, Apartment, "4" gives
\* "123 A MAIN Street Apartment 4".
C13_Label ==
    Classified =>
        \A k \in DOMAIN records :
            /\ records[k].address_label
                   = JoinWords(NumberPart(A) \o StreetPart(A) \o SubaddressPart(A))
            /\ (/\ A.address_number = 123
                /\ A.address_number_suffix = Some("A")
                /\ A.street_name_pre_directional = None
                /\ A.street_name = "MAIN"
                /\ A.street_name_post_type = "Street"
                /\ A.subaddress_type = Some("Apartment")
                /\ A.subaddress_identifier = Some("4")) =>
                   records[k].address_label = "123 A MAIN Street Apartment 4"

C13_Witness ==
    /\ Classified
    /\ A.subaddress_type = Some("Apartment")
    /\ A.subaddress_identifier = Some("4")
    /\ records[1].address_label = "123 A MAIN Street Apartment 4"

\* ---------------------------------------------------------------- filtering
\* the positions of the Missing records of a record list
MissingPositions(recs) == {i \in DOMAIN recs : recs[i].match_status = "Missing"}

\* the k-th smallest position of a set of positions
NthOf(P, k) == CHOOSE i \in P : Cardinality({j \in P : j <= i}) = k

\* C14: the filter command with status Missing leaves the set it read as it
\* was, and the set it filters out holds the Missing records of that set, all
\* of them and nothing else, in their original order.
C14_FilterMissing ==
    [][(pc = "read" /\ pc' # "read" /\ filter = Some("Missing")) =>
           /\ records' = records
           /\ filtered' # None
           /\ Len(filtered'[1]) = Cardinality(MissingPositions(records))
           /\ \A k \in DOMAIN filtered'[1] :
                  filtered'[1][k] = records[NthOf(MissingPositions(records), k)]]_vars

C14_Witness ==
    /\ pc = "written"
    /\ filter = Some("Missing")
    /\ Len(records) = 3
    /\ MissingPositions(records) = {1, 3}
    /\ records[1] # records[3]
    /\ filtered[1] = <<records[1], records[3]>>
    /\ Len(output[1]) = 2

\* ---------------------------------------------------------------- records
\* the position in other_addresses of the k-th coincident candidate
CandidateOf(k) == NthOf(CoincidentPositions, k)

\* the column of a record that reports a secondary field
ColumnOf(r, f) ==
    CASE f = "subaddress_type" -> r.subaddress_type
      [] f = "floor" -> r.floor
      [] f = "building" -> r.building
      [] f = "status" -> r.status

\* C16: a Matching record has other_id set and its four columns empty; a
\* Divergent record has other_id set and a column set exactly for the
\* secondary fields on which the source and its candidate differ, at least
\* one; a Missing record has no other_id and its four columns empty.
C16_RecordInvariant ==
    Classified =>
        \A k \in DOMAIN records :
            CASE records[k].match_status = "Matching" ->
                     /\ records[k].other_id # None
                     /\ \A f \in SecondaryFields : ColumnOf(records[k], f) = None
              [] records[k].match_status = "Divergent" ->
                     /\ records[k].other_id # None
                     /\ k <= Cardinality(CoincidentPositions)
                     /\ \A f \in SecondaryFields :
                            (ColumnOf(records[k], f) # None)
                                <=> (f \in SecondaryDiff(CandidateOf(k)))
                     /\ \E f \in SecondaryFields : ColumnOf(records[k], f) # None
              [] records[k].match_status = "Missing" ->
                     /\ records[k].other_id = None
                     /\ \A f \in SecondaryFields : ColumnOf(records[k], f) = None

C16_Witness ==
    /\ Classified
    /\ Len(records) = 2
    /\ records[1].match_status = "Matching"
    /\ records[2].match_status = "Divergent"
    /\ records[2].floor # None
    /\ records[2].status = None

\* C17: when some candidate is coincident, the records are one per
\* convertible coincident candidate, in list order: the k-th record has the
\* id of the k-th coincident candidate as other_id, and every record has the
\* id and the label of the source.
C17_OneRecordPerCoincidentInOrder ==
    (Classified /\ CoincidentPositions # {}) =>
        /\ Len(records) = Cardinality(CoincidentPositions)
        /\ \A k \in DOMAIN records :
               /\ records[k].other_id
                      = Some(other_addresses[CandidateOf(k)].object_id)
               /\ records[k].self_id = self_address.object_id
               /\ records[k].address_label = label(A)

C17_Witness ==
    /\ Classified
    /\ CoincidentPositions = {1, 2}
    /\ other_addresses[1].object_id = 3
    /\ other_addresses[2].object_id = 2
    /\ records[1].other_id = Some(3)
    /\ records[2].other_id = Some(2)

\* the composite identity key of a canonical address
IdentityKey(a) ==
    <<a.address_number, a.address_number_suffix, a.street_name_pre_directional,
      a.street_name, a.street_name_post_type, a.subaddress_identifier,
      a.zip_code, a.postal_community, a.state_name>>

\* the candidate converts and has the identity key of the source
SameIdentityKey(c) ==
    Convertible(c) /\ IdentityKey(TryInto(c).val) = IdentityKey(A)

\* C18: classifying against only the candidates whose identity key is the
\* source's, in their original order, gives the records of the full scan.
C18_IdentityKeyIndex ==
    Classified =>
        records = MatchRecordsNew(self_address,
                                  SelectSeq(other_addresses, SameIdentityKey))

C18_Witness ==
    /\ Classified
    /\ Len(other_addresses) = 2
    /\ Convertible(other_addresses[1])
    /\ ~SameIdentityKey(other_addresses[1])
    /\ SameIdentityKey(other_addresses[2])
    /\ Len(records) = 1
    /\ records[1].other_id = Some(other_addresses[2].object_id)

\* C19: an address converted from a county record has no building, so for a
\* source address with a building every convertible coincident county
\* candidate gives a Divergent record with the building column set, never a
\* Matching record.
C19_CountyBuildingDivergent ==
    /\ (pc = "converted" /\ ConversionResult.ok) =>
           ConversionResult.val.building = None
    /\ (Classified /\ A.building # None) =>
           \A k \in 1..Cardinality(CoincidentPositions) :
               other_addresses[CandidateOf(k)].kind = "county" =>
                   /\ k \in DOMAIN records
                   /\ records[k].match_status = "Divergent"
                   /\ records[k].building # None

C19_Witness ==
    /\ Classified
    /\ A.building = Some("B")
    /\ Len(other_addresses) = 1
    /\ other_addresses[1].kind = "county"
    /\ CoincidentPositions = {1}
    /\ SecondaryDiff(1) = {"building"}
    /\ records[1].match_status = "Divergent"
    /\ records[1].building = Some("Some(\"B\") not equal to None")

====
